---- MODULE Spec2Model ----
(***************************************************************************)
(* The paper-driven experiment pipeline of backend/python:                 *)
(*   paper_registry.py          PAPER_REGISTRY, find_relevant_papers,      *)
(*                              get_paper_entry, build_experiment_pipeline *)
(*   paper_experiment_runner.py main(): checks, paper search, experiment   *)
(*                              loop, winner, submission, knowledge graph  *)
(*                                                                         *)
(* Floats are modelled by exact values: a cross-validation score is an     *)
(* integer of a totally ordered range, a ratio is a pair num/den.  An      *)
(* optional value (Python None) is the empty tuple, a present value v is   *)
(* the one-element tuple <<v>>.                                            *)
(***************************************************************************)
EXTENDS Integers, Sequences, FiniteSets, TLC

VARIABLES
    pc,              \* position of main(), or of the call of a function on its own
    registry,        \* the module-level list PAPER_REGISTRY of paper_registry
    analysis,        \* the profiling report handed to build_dataset_context
    context,         \* the DatasetContext (paper_registry.build_dataset_context)
    max_papers,      \* the cap handed to find_relevant_papers
    matched_papers,  \* the matcher's output, a sequence of matches
    argc,            \* len(sys.argv)
    data_dir,        \* what the data directory holds when the run starts
    train_columns,   \* header of train_df, <<>> before it is read
    test_columns,    \* header of test_df
    target_col,      \* None or <<column>>
    idx,             \* 1-based sequence index of the strategy in the loop
    results,         \* the outcome list
    baseline_score,  \* None or <<score>>
    events,          \* the JSON lines written to stdout, in order
    exit_status,     \* None while running, <<code>> once the process has ended
    uncaught,        \* TRUE once an exception nobody catches has ended the process
    raised,          \* None, or <<[stage, message]>>: the exception raised last
    submission,      \* None, or <<the winner and the identifiers written>>
    knowledge_graph, \* None, or <<graph>> written to knowledge_graph.json
    train_df,        \* the train table as read, <<>> before
    test_df,         \* the test table as read
    preprocessed,    \* None, or <<X_train, y_train, X_test, test_ids, id_col>>
    pipeline,        \* the estimator handed to run_pseudo_label_experiment
    returned         \* None, or <<what run_pseudo_label_experiment returned>>

vars == << pc, registry, analysis, argc, data_dir, context, max_papers, matched_papers,
           train_columns, test_columns,
           target_col, idx, results, baseline_score, events, exit_status,
           uncaught, raised, submission, knowledge_graph, train_df, test_df,
           preprocessed, pipeline, returned >>

None == << >>

Some(v) == << v >>

Min(a, b) == IF a <= b THEN a ELSE b

Max(a, b) == IF a >= b THEN a ELSE b

Range(s) == { s[i] : i \in 1..Len(s) }

\* ------------------------------------------------------------------ bounds

\* Largest cap tried on find_relevant_papers (the smallest is -2).
MaxCap == 13

\* Mean cross-validation scores are 0..MaxScore.
MaxScore == 2

\* Largest number of test rows the fitted model is confident about.
MaxConfident == 12

\* ------------------------------------------------------------ the registry

Ratio(n, d) == [num |-> n, den |-> d]

\* r > a/b for a ratio r with a positive denominator
RatioGt(r, a, b) == r.num * b > a * r.den

PAPER_REGISTRY ==
    << [paper_id |-> "srivastava2014", technique |-> "Dropout Regularization"],
       [paper_id |-> "ioffe2015",      technique |-> "Aggressive Scaling"],
       [paper_id |-> "kingma2015",     technique |-> "Adaptive LR GBM"],
       [paper_id |-> "he2016",         technique |-> "Residual Features"],
       [paper_id |-> "goodfellow2014", technique |-> "Class Balancing"],
       [paper_id |-> "mikolov2013",    technique |-> "Frequency Encoding"],
       [paper_id |-> "hinton2006",     technique |-> "PCA Reduction"],
       [paper_id |-> "vaswani2017",    technique |-> "Feature Selection"],
       [paper_id |-> "kipf2017",       technique |-> "Pseudo-Labeling"],
       [paper_id |-> "zoph2017",       technique |-> "Hyperparameter Search"],
       [paper_id |-> "loshchilov2019", technique |-> "Weight Decay + L1 Selection"],
       [paper_id |-> "bahdanau2015",   technique |-> "Tree-based Selection"],
       [paper_id |-> "kaplan2020",     technique |-> "Ensemble Scaling"],
       [paper_id |-> "ronneberger2015", technique |-> "Bagging Augmentation"],
       [paper_id |-> "lewis2020",      technique |-> "KNN Features"] >>

\* entry['relevance_fn'](ctx)
relevance_fn(entry, ctx) ==
    CASE entry.paper_id = "srivastava2014" ->
             ctx.train_rows < 5000 \/ ctx.num_features > 15
      [] entry.paper_id = "ioffe2015" -> RatioGt(ctx.numeric_ratio, 1, 2)
      [] entry.paper_id = "kingma2015" -> TRUE
      [] entry.paper_id = "he2016" -> ctx.numeric_count >= 2
      [] entry.paper_id = "goodfellow2014" ->
             ctx.problem_type = "classification"
             /\ RatioGt(ctx.class_imbalance_ratio, 2, 1)
      [] entry.paper_id = "mikolov2013" -> ctx.has_categoricals
      [] entry.paper_id = "hinton2006" -> ctx.numeric_count > 10
      [] entry.paper_id = "vaswani2017" -> ctx.num_features > 5
      [] entry.paper_id = "kipf2017" -> ctx.problem_type = "classification"
      [] entry.paper_id = "zoph2017" -> TRUE
      [] entry.paper_id = "loshchilov2019" -> ctx.num_features > 5
      [] entry.paper_id = "bahdanau2015" -> ctx.num_features > 8
      [] entry.paper_id = "kaplan2020" -> TRUE
      [] entry.paper_id = "ronneberger2015" -> ctx.train_rows < 5000
      [] entry.paper_id = "lewis2020" -> ctx.has_missing

\* The context literal find_relevant_papers re-evaluates each predicate on.
ReferenceContext ==
    [ problem_type |-> "classification", train_rows |-> 10000,
      num_features |-> 3, numeric_count |-> 1, categorical_count |-> 0,
      numeric_ratio |-> Ratio(33, 100), has_categoricals |-> FALSE,
      has_missing |-> FALSE, class_imbalance_ratio |-> Ratio(1, 1) ]

\* The match dict built for a relevant entry.
Match(entry) == [paper_id |-> entry.paper_id, technique |-> entry.technique]

\* s[:n] of Python, for any integer n
SliceAll(s, n) == s

SliceBelow(s, n) == SubSeq(s, 1, Min(n, Len(s)) - 1)

Slice(s, n) ==
    IF n >= 0 THEN SubSeq(s, 1, Min(n, Len(s)))
    ELSE SubSeq(s, 1, Max(Len(s) + n, 0))

RECURSIVE CollectRegistryOrder(_, _, _)
CollectRegistryOrder(reg, ctx, universal) ==
    IF reg = << >> \/ universal THEN << >>
    ELSE LET entry == Head(reg)
             rest == CollectRegistryOrder(Tail(reg), ctx, universal)
         IN IF relevance_fn(entry, ctx) THEN << Match(entry) >> \o rest
            ELSE rest

RECURSIVE CollectUniversalOnly(_, _, _)
CollectUniversalOnly(reg, ctx, universal) ==
    IF reg = << >> \/ ~universal THEN << >>
    ELSE LET entry == Head(reg)
             rest == CollectUniversalOnly(Tail(reg), ctx, universal)
         IN IF relevance_fn(entry, ctx)
               /\ relevance_fn(entry, ReferenceContext)
            THEN << Match(entry) >> \o rest
            ELSE rest

RECURSIVE CollectAgainstContext(_, _, _)
CollectAgainstContext(reg, ctx, universal) ==
    IF reg = << >> THEN << >>
    ELSE LET entry == Head(reg)
             rest == CollectAgainstContext(Tail(reg), ctx, universal)
         IN IF relevance_fn(entry, ctx)
               /\ (relevance_fn(entry, ctx) <=> universal)
            THEN << Match(entry) >> \o rest
            ELSE rest

\* The matches of one of the two lists, in the order the loop appends them.
RECURSIVE Collect(_, _, _)
Collect(reg, ctx, universal) ==
    IF reg = << >> THEN << >>
    ELSE LET entry == Head(reg)
             rest == Collect(Tail(reg), ctx, universal)
         IN IF relevance_fn(entry, ctx)
               /\ (relevance_fn(entry, ReferenceContext) <=> universal)
            THEN << Match(entry) >> \o rest
            ELSE rest

UniversalFirst(ctx, cap) ==
    Slice(Collect(registry, ctx, TRUE) \o Collect(registry, ctx, FALSE), cap)

\* The function iterates over the module-level list, whatever it holds when
\* the call is made.
find_relevant_papers(ctx, cap) ==
    Slice(Collect(registry, ctx, FALSE) \o Collect(registry, ctx, TRUE), cap)

get_paper_entry_but_last(paper_id) ==
    LET hits == { i \in 1..(Len(PAPER_REGISTRY) - 1) :
                    PAPER_REGISTRY[i].paper_id = paper_id }
    IN IF hits = {} THEN None
       ELSE Some(PAPER_REGISTRY[CHOOSE i \in hits : \A j \in hits : i <= j])

\* None, or the first registry entry with that identifier
get_paper_entry(paper_id) ==
    LET hits == { i \in 1..Len(PAPER_REGISTRY) :
                    PAPER_REGISTRY[i].paper_id = paper_id }
    IN IF hits = {} THEN None
       ELSE Some(PAPER_REGISTRY[CHOOSE i \in hits : \A j \in hits : i <= j])

\* ------------------------------------------------------ the context builder

\* An entry of columns_info, with the name it is filed under.
Column(name, feature_type, dtype, unique, missing_pct) ==
    [name |-> name, feature_type |-> feature_type, dtype |-> dtype,
     unique |-> unique, missing_pct |-> missing_pct]

Unguarded(n) == n

\* max(n, 1), the divisor of both ratios
Guarded(n) == Max(n, 1)

RECURSIVE MaxOf(_)
MaxOf(counts) ==
    IF Len(counts) = 1 THEN Head(counts)[1]
    ELSE Max(Head(counts)[1], MaxOf(Tail(counts)))

RECURSIVE MinOf(_)
MinOf(counts) ==
    IF Len(counts) = 1 THEN Head(counts)[1]
    ELSE Min(Head(counts)[1], MinOf(Tail(counts)))

\* The class imbalance block: 1.0 unless the class balance has two entries or
\* more and its first value is a number (a JSON null is not).
imbalance_ratio(class_balance) ==
    IF class_balance # None /\ Len(class_balance[1]) >= 2
    THEN LET counts == class_balance[1]
         IN IF counts[1] # None
            THEN Ratio(MaxOf(counts), Guarded(MinOf(counts)))
            ELSE Ratio(1, 1)
    ELSE Ratio(1, 1)

\* The keys missing_columns, target_column and train_file of the returned dict
\* are read by no predicate of the registry and are left out.
build_dataset_context(a) ==
    LET cols_info == IF a.train_file THEN a.columns ELSE << >>
        target == a.target_column
        feature_cols ==
            SelectSeq(cols_info, LAMBDA v : Some(v.name) # target)
        num_features == Len(feature_cols)
        numeric_count ==
            Len(SelectSeq(feature_cols, LAMBDA v :
                    v.feature_type \in {"continuous", "discrete"}))
        categorical_count ==
            Len(SelectSeq(feature_cols, LAMBDA v :
                    v.feature_type \in {"categorical", "high_cardinality"}))
        missing_cols == SelectSeq(feature_cols, LAMBDA v : v.missing_pct > 5)
        target_info ==
            SelectSeq(cols_info, LAMBDA v : Some(v.name) = target)
        unique == IF target_info = << >> THEN 0 ELSE target_info[1].unique
        dtype == IF target_info = << >> THEN "" ELSE target_info[1].dtype
    IN [ problem_type |->
             IF unique <= 20 /\ dtype \in {"int64", "object", "bool"}
             THEN "classification" ELSE "regression",
         train_rows |-> IF a.train_file THEN a.rows ELSE 0,
         num_features |-> num_features,
         numeric_count |-> numeric_count,
         categorical_count |-> categorical_count,
         numeric_ratio |-> Ratio(numeric_count, Guarded(num_features)),
         has_categoricals |-> categorical_count > 0,
         has_missing |-> Len(missing_cols) > 0,
         class_imbalance_ratio |-> imbalance_ratio(a.class_balance) ]

\* -------------------------------------------------- the matcher on its own

\* DatasetContext values the matcher is tried on.
Contexts ==
    [ problem_type : {"classification", "regression"},
      train_rows : {400, 50000},
      num_features : {0, 3, 6, 9, 16},
      numeric_count : {0, 1, 2, 11},
      categorical_count : {0},
      numeric_ratio : {Ratio(0, 1), Ratio(1, 2), Ratio(4, 5)},
      has_categoricals : BOOLEAN,
      has_missing : BOOLEAN,
      class_imbalance_ratio : {Ratio(1, 1), Ratio(2, 1), Ratio(3, 1)} ]

\* Two datasets beside the grid: a small mixed classification table, and a
\* large table of three numeric features, as a classification and as a
\* regression problem.
RoundTripContext ==
    [ problem_type |-> "classification", train_rows |-> 400,
      num_features |-> 10, numeric_count |-> 8, categorical_count |-> 2,
      numeric_ratio |-> Ratio(8, 10), has_categoricals |-> TRUE,
      has_missing |-> FALSE, class_imbalance_ratio |-> Ratio(1, 1) ]

AllNumericContexts ==
    { [ problem_type |-> t, train_rows |-> 50000,
        num_features |-> 3, numeric_count |-> 3, categorical_count |-> 0,
        numeric_ratio |-> Ratio(3, 3), has_categoricals |-> FALSE,
        has_missing |-> FALSE, class_imbalance_ratio |-> Ratio(1, 1) ]
      : t \in {"classification", "regression"} }

Caps == (0 - 2)..MaxCap

\* The default of the max_papers parameter.
DEFAULT_MAX_PAPERS == 8

\* Lists the module-level name can hold when the matcher is called: the
\* shipped one, the shipped one without its always-true descriptors, two
\* descriptors, and none.
RECURSIVE Select(_, _)
Select(reg, ids) ==
    IF reg = << >> THEN << >>
    ELSE IF Head(reg).paper_id \in ids
         THEN << Head(reg) >> \o Select(Tail(reg), ids)
         ELSE Select(Tail(reg), ids)

PaperIds == { PAPER_REGISTRY[i].paper_id : i \in 1..Len(PAPER_REGISTRY) }

Registries ==
    { PAPER_REGISTRY,
      Select(PAPER_REGISTRY,
             PaperIds \ {"kingma2015", "zoph2017", "kaplan2020"}),
      Select(PAPER_REGISTRY, {"mikolov2013", "kipf2017"}),
      << >> }

RegistryContexts ==
    { c \in Contexts : /\ c.num_features \in {3, 9}
                       /\ c.numeric_count \in {1, 11}
                       /\ c.class_imbalance_ratio # Ratio(2, 1) }

NoData ==
    [analysis |-> FALSE, train_file |-> FALSE, test_file |-> FALSE,
     train_columns |-> << >>, test_columns |-> << >>,
     label_encoding_error |-> None, frequency_encoding_error |-> None]

\* No profiling report: the calls that read none.
NoAnalysis ==
    [train_file |-> FALSE, rows |-> 0, columns |-> << >>,
     target_column |-> None, class_balance |-> None]

MatchInit ==
    /\ pc = "match_call"
    /\ context \in Contexts \cup {RoundTripContext} \cup AllNumericContexts
    /\ max_papers \in Caps
    /\ matched_papers = << >>
    /\ registry = PAPER_REGISTRY
    /\ analysis = NoAnalysis
    /\ argc = 0
    /\ data_dir = NoData
    /\ train_columns = << >>
    /\ test_columns = << >>
    /\ target_col = None
    /\ idx = 0
    /\ results = << >>
    /\ baseline_score = None
    /\ events = << >>
    /\ exit_status = None
    /\ uncaught = FALSE
    /\ raised = None
    /\ submission = None
    /\ knowledge_graph = None
    /\ train_df = << >>
    /\ test_df = << >>
    /\ preprocessed = None
    /\ pipeline = None
    /\ returned = None

\* One call find_relevant_papers(context, max_papers).
MatchCall ==
    /\ pc = "match_call"
    /\ matched_papers' = find_relevant_papers(context, max_papers)
    /\ pc' = "match_done"
    /\ UNCHANGED << train_df, test_df, preprocessed, pipeline, returned,
                    registry, analysis, argc, data_dir,
                    context, max_papers, train_columns,
                    test_columns, target_col, idx, results, baseline_score,
                    events, exit_status, uncaught, raised, submission,
                    knowledge_graph >>

MatchNext == MatchCall

MatchSpec == MatchInit /\ [][MatchNext]_vars

\* The matcher called while the module-level list holds another registry.
RegistryInit ==
    /\ pc = "match_call"
    /\ context \in RegistryContexts
    /\ max_papers \in Caps
    /\ matched_papers = << >>
    /\ registry \in Registries
    /\ analysis = NoAnalysis
    /\ argc = 0
    /\ data_dir = NoData
    /\ train_columns = << >>
    /\ test_columns = << >>
    /\ target_col = None
    /\ idx = 0
    /\ results = << >>
    /\ baseline_score = None
    /\ events = << >>
    /\ exit_status = None
    /\ uncaught = FALSE
    /\ raised = None
    /\ submission = None
    /\ knowledge_graph = None
    /\ train_df = << >>
    /\ test_df = << >>
    /\ preprocessed = None
    /\ pipeline = None
    /\ returned = None

RegistrySpec == RegistryInit /\ [][MatchNext]_vars

\* ------------------------------------------- the context builder on its own

FeaturePool ==
    << Column("x1", "continuous", "float64", 30, 0),
       Column("x2", "discrete", "int64", 5, 10),
       Column("c", "categorical", "object", 3, 5),
       Column("note", "other", "bool", 2, 0) >>

TargetPool ==
    { Column("y", "discrete", "int64", 2, 0),
      Column("y", "continuous", "float64", 30, 0),
      Column("y", "categorical", "object", 3, 0) }

RECURSIVE Named(_, _)
Named(cols, names) ==
    IF cols = << >> THEN << >>
    ELSE IF Head(cols).name \in names
         THEN << Head(cols) >> \o Named(Tail(cols), names)
         ELSE Named(Tail(cols), names)

\* Tables of columns_info: some of the feature columns, then a column y or
\* none.
ColumnTables ==
    { Named(FeaturePool, names) \o tail :
        names \in SUBSET {"x1", "x2", "c", "note"},
        tail \in {<< >>} \cup { <<t>> : t \in TargetPool } }

\* Values of _meta.class_balance: absent or null, empty, one class, classes
\* with counts (some of them 0), and values that are no numbers.
ClassBalances ==
    { None, Some(<< >>), Some(<< Some(3) >>),
      Some(<< Some(2), Some(2) >>), Some(<< Some(1), Some(7) >>),
      Some(<< Some(0), Some(5) >>), Some(<< Some(0), Some(0) >>),
      Some(<< None, None >>) }

Analyses ==
    [ train_file : BOOLEAN,
      rows : {400},
      columns : ColumnTables,
      target_column : {None, Some("y"), Some("x1")},
      class_balance : ClassBalances ]

ContextInit ==
    /\ pc = "context_call"
    /\ analysis \in Analyses
    /\ context = None
    /\ max_papers = DEFAULT_MAX_PAPERS
    /\ matched_papers = << >>
    /\ registry = PAPER_REGISTRY
    /\ argc = 0
    /\ data_dir = NoData
    /\ train_columns = << >>
    /\ test_columns = << >>
    /\ target_col = None
    /\ idx = 0
    /\ results = << >>
    /\ baseline_score = None
    /\ events = << >>
    /\ exit_status = None
    /\ uncaught = FALSE
    /\ raised = None
    /\ submission = None
    /\ knowledge_graph = None
    /\ train_df = << >>
    /\ test_df = << >>
    /\ preprocessed = None
    /\ pipeline = None
    /\ returned = None

\* One call build_dataset_context(analysis).
ContextCall ==
    /\ pc = "context_call"
    /\ context' = build_dataset_context(analysis)
    /\ pc' = "context_done"
    /\ UNCHANGED << train_df, test_df, preprocessed, pipeline, returned,
                    registry, analysis, argc, data_dir, max_papers,
                    matched_papers, train_columns, test_columns, target_col,
                    idx, results, baseline_score, events, exit_status,
                    uncaught, raised, submission, knowledge_graph >>

ContextNext == ContextCall

ContextSpec == ContextInit /\ [][ContextNext]_vars

\* ------------------------------------------------------------------ tables

\* A cell of a table: a number n/d, a string, or a missing value (NaN).
Num(n, d) == [kind |-> "num", n |-> n, d |-> d, s |-> ""]

Str(s) == [kind |-> "str", n |-> 0, d |-> 1, s |-> s]

NaN == [kind |-> "nan", n |-> 0, d |-> 1, s |-> ""]

\* A column of a DataFrame; a DataFrame is the sequence of its columns.
Col(name, dtype, values) == [name |-> name, dtype |-> dtype, values |-> values]

\* len(df)
NRows(df) == IF df = << >> THEN 0 ELSE Len(df[1].values)

\* s[mask] for a sequence s and a boolean mask of its length
RECURSIVE Masked(_, _)
Masked(s, mask) ==
    IF s = << >> THEN << >>
    ELSE (IF Head(mask) THEN << Head(s) >> ELSE << >>)
         \o Masked(Tail(s), Tail(mask))

\* df[mask]: the rows of df the mask selects
RowsWhere(df, mask) ==
    [c \in 1..Len(df) |-> [df[c] EXCEPT !.values = Masked(@, mask)]]

\* pd.concat([a, b], ignore_index=True) of two tables of the same columns
ConcatRows(a, b) ==
    [c \in 1..Len(a) |-> [a[c] EXCEPT !.values = @ \o b[c].values]]

\* ----------------------------------------------------- basic_preprocess

\* The strings of the tables in the order Python compares them (code points).
StringOrder ==
    << "ID", "Id", "PassengerId", "Survived", "_missing_", "a", "b", "c", "d",
       "id", "passangerid", "x", "y" >>

\* sorted(S) for a set S of strings
sorted_strings(S) ==
    LET member(s) == s \in S
    IN SelectSeq(StringOrder, member)

\* df.columns
Columns(df) == [c \in 1..Len(df) |-> df[c].name]

\* df[name]; a table holds no name twice
Series(df, name) == df[CHOOSE c \in 1..Len(df) : df[c].name = name]

\* df[names] for a list of names: a new table
Take(df, names) == [k \in 1..Len(names) |-> Series(df, names[k])]

drop_inplace(df, columns) ==
    LET keep(col) == col.name \notin columns
    IN [self |-> SelectSeq(df, keep), result |-> SelectSeq(df, keep)]

\* df.drop(columns=columns): the result is a new table, df itself (self) is
\* left as it was
drop(df, columns) ==
    LET keep(col) == col.name \notin columns
    IN [self |-> df, result |-> SelectSeq(df, keep)]

\* for col in ['PassengerId', 'Id', 'id', 'ID']: if col in df.columns
find_id_column(df) ==
    LET preference == << "PassengerId", "Id", "id", "ID" >>
        hits == { k \in 1..Len(preference) :
                    preference[k] \in Range(Columns(df)) }
    IN IF hits = {} THEN None
       ELSE Some(preference[CHOOSE k \in hits : \A l \in hits : k <= l])

\* Series.nunique(): the distinct values that are not missing
nunique(values) == Cardinality({ v \in Range(values) : v # NaN })

\* a < b for two numeric cells
NumLt(a, b) == a.n * b.d < b.n * a.d

\* Series.median(): the middle of the values that are not missing, the mean of
\* the two middle ones when their number is even, NaN when there is none
median(values) ==
    LET present == { i \in 1..Len(values) : values[i] # NaN }
        m == Cardinality(present)
        kth(k) == values[CHOOSE i \in present :
                      /\ Cardinality({ j \in present :
                                         NumLt(values[j], values[i]) }) < k
                      /\ Cardinality({ j \in present :
                                         ~NumLt(values[i], values[j]) }) >= k]
    IN IF m = 0 THEN NaN
       ELSE IF m % 2 = 1 THEN kth((m + 1) \div 2)
       ELSE LET a == kth(m \div 2)
                b == kth(m \div 2 + 1)
            IN IF a = b THEN a
               ELSE Num(a.n * b.d + b.n * a.d, 2 * a.d * b.d)

\* Series.fillna(value)
fillna(values, value) ==
    [i \in 1..Len(values) |-> IF values[i] = NaN THEN value ELSE values[i]]

\* values.map(freq).fillna(0.0), freq being
\* train_values.value_counts(normalize=True): the share of each value among the
\* values of the train column that are not missing
frequency_encode_values(train_values, values) ==
    LET present == { j \in 1..Len(train_values) : train_values[j] # NaN }
        count(v) == Cardinality({ j \in present : train_values[j] = v })
    IN [i \in 1..Len(values) |->
           IF values[i] = NaN \/ count(values[i]) = 0 THEN Num(0, 1)
           ELSE Num(count(values[i]), Cardinality(present))]

\* LabelEncoder: fit on the values of both columns after fillna('_missing_'),
\* classes_ sorted, transform gives the position of the value in classes_
label_encode_values(train_values, test_values, values) ==
    LET both == fillna(train_values, Str("_missing_"))
                \o fillna(test_values, Str("_missing_"))
        classes == sorted_strings({ both[j].s : j \in 1..Len(both) })
        filled == fillna(values, Str("_missing_"))
    IN [i \in 1..Len(values) |->
           Num((CHOOSE k \in 1..Len(classes) : classes[k] = filled[i].s) - 1,
               1)]

\* pd.api.types.is_numeric_dtype
is_numeric_dtype(dtype) == dtype \in {"int64", "float64", "bool"}

\* The arguments after the call (train_df, test_df) and the tuple returned.
basic_preprocess(train, test, target, frequency_encode) ==
    LET dropped_target == drop(train, {target})
        y_train == Series(train, target).values
        X_test_0 == test
        id_col == find_id_column(X_test_0)
        test_ids == IF id_col # None
                    THEN Some(Series(X_test_0, id_col[1]).values)
                    ELSE None
        X_train_1 == IF id_col # None
                     THEN drop(dropped_target.result, {id_col[1]}).result
                     ELSE dropped_target.result
        X_test_1 == IF id_col # None
                    THEN drop(X_test_0, {id_col[1]}).result
                    ELSE X_test_0
        common_cols == sorted_strings(Range(Columns(X_train_1))
                              \cap Range(Columns(X_test_1)))
        X_train_2 == Take(X_train_1, common_cols)
        X_test_2 == Take(X_test_1, common_cols)
        drop_cols == { col.name : col \in
                         { c \in Range(X_train_2) :
                             c.dtype = "object" /\ nunique(c.values) > 50 } }
        X_train_3 == drop(X_train_2, drop_cols).result
        X_test_3 == drop(X_test_2, drop_cols).result
        categorical(c) == \/ X_train_3[c].dtype \in {"object", "string"}
                          \/ ~is_numeric_dtype(X_train_3[c].dtype)
        encoded(c, values) ==
            IF categorical(c)
            THEN IF frequency_encode
                 THEN frequency_encode_values(X_train_3[c].values, values)
                 ELSE label_encode_values(X_train_3[c].values,
                                          X_test_3[c].values, values)
            ELSE fillna(values, median(X_train_3[c].values))
        dtype(c, old) ==
            IF categorical(c)
            THEN (IF frequency_encode THEN "float64" ELSE "int64")
            ELSE old
    IN [ train_df |-> dropped_target.self,
         test_df |-> test,
         result |->
           [ X_train |-> [c \in 1..Len(X_train_3) |->
                            Col(X_train_3[c].name,
                                dtype(c, X_train_3[c].dtype),
                                encoded(c, X_train_3[c].values))],
             y_train |-> y_train,
             X_test |-> [c \in 1..Len(X_test_3) |->
                           Col(X_test_3[c].name,
                               dtype(c, X_test_3[c].dtype),
                               encoded(c, X_test_3[c].values))],
             test_ids |-> test_ids,
             id_col |-> id_col ] ]

\* -------------------------------------------------- the pseudo-label handler

confident_mask_at_least(max_proba) ==
    [j \in 1..Len(max_proba) |-> max_proba[j] >= 90]

\* max_proba > 0.9, probabilities in percent
confident_mask(max_proba) ==
    [j \in 1..Len(max_proba) |-> max_proba[j] > 90]

\* What the handler returns: the data the cross-validation ran on and the data
\* of the fit whose model predicts the test set, one prediction per row of
\* X_test, and the note.  pipe.predict_proba is None when the estimator has no
\* such attribute, else the row maxima of its output on X_test; pipe.predict
\* holds the labels the first fit predicts for the rows of X_test.
run_pseudo_label_experiment(pipe, X_train, y_train, X_test) ==
    LET test_proba == pipe.predict_proba
        mask == confident_mask(test_proba[1])
        n_confident == Cardinality({ j \in 1..Len(mask) : mask[j] })
        X_combined == ConcatRows(X_train, RowsWhere(X_test, mask))
        y_combined == y_train \o Masked(pipe.predict, mask)
    IN IF test_proba # None /\ n_confident > 10
       THEN [ cv |-> [X |-> X_combined, y |-> y_combined, folds |-> 5],
              fit |-> [X |-> X_combined, y |-> y_combined],
              preds |-> [j \in 1..NRows(X_test) |-> "refit"],
              extra_info |->
                  "Pseudo-labeled " \o ToString(n_confident) \o " samples" ]
       ELSE [ cv |-> [X |-> X_train, y |-> y_train, folds |-> 5],
              fit |-> [X |-> X_train, y |-> y_train],
              preds |-> [j \in 1..NRows(X_test) |-> "fit"],
              extra_info |->
                  "Standard training (pseudo-labeling not confident enough)" ]

\* ------------------------------------------------------------ main(): data

\* The cap main() passes to find_relevant_papers.
MAX_PAPERS == 8

\* Messages of the exceptions a strategy, a preprocessing pass or a write raises.
ErrorMessages == {"failed", "bad value"}

\* Mean cross-validation scores a strategy can come back with.
Scores == 0..MaxScore

\* Contexts of the runs, as build_dataset_context derives them (numeric_ratio is
\* numeric_count / num_features): 3, 4, 5 and 4 descriptors match them.
RunContexts ==
    { [ReferenceContext EXCEPT !.problem_type = "regression",
                               !.train_rows = 50000,
                               !.numeric_ratio = Ratio(1, 3)],
      [ReferenceContext EXCEPT !.train_rows = 50000,
                               !.numeric_ratio = Ratio(1, 3)],
      [ReferenceContext EXCEPT !.problem_type = "regression",
                               !.train_rows = 50000,
                               !.numeric_count = 3,
                               !.numeric_ratio = Ratio(3, 3)],
      [ReferenceContext EXCEPT !.problem_type = "regression",
                               !.train_rows = 50000,
                               !.numeric_ratio = Ratio(1, 3),
                               !.categorical_count = 1,
                               !.has_categoricals = TRUE] }

\* Headers of the train and the test table.
ColumnPairs ==
    { << <<"Id", "x", "y">>, <<"Id", "x">> >>,
      << <<"PassengerId", "Survived", "x">>, <<"PassengerId", "x">> >>,
      << <<"Id", "x">>, <<"Id", "x">> >>,
      << <<"passangerid", "x">>, <<"x">> >>,
      << <<"Id", "x", "c", "y">>, <<"Id", "x", "c">> >>,
      << <<"c", "y">>, <<"c">> >> }

\* The cells the two files hold under a header name: identifiers that are not
\* in ascending order in the test file, a numeric feature x and a categorical
\* feature c with missing values, c with a value the train file does not have.
CsvValues(file, name) ==
    CASE name \in {"Id", "PassengerId", "passangerid"} ->
             IF file = "train"
             THEN << Num(1, 1), Num(2, 1), Num(3, 1), Num(4, 1) >>
             ELSE << Num(9, 1), Num(5, 1), Num(7, 1) >>
      [] name = "x" ->
             IF file = "train"
             THEN << Num(4, 1), NaN, Num(2, 1), Num(7, 1) >>
             ELSE << NaN, Num(1, 1), Num(5, 1) >>
      [] name = "c" ->
             IF file = "train"
             THEN << Str("a"), Str("b"), Str("a"), NaN >>
             ELSE << Str("d"), NaN, Str("b") >>
      [] OTHER ->
             IF file = "train"
             THEN << Num(0, 1), Num(1, 1), Num(0, 1), Num(1, 1) >>
             ELSE << Num(0, 1), Num(0, 1), Num(1, 1) >>

\* The dtype pandas infers for the column.
CsvDtype(name) ==
    CASE name = "c" -> "object"
      [] name = "x" -> "float64"
      [] OTHER -> "int64"

\* pd.read_csv of the file whose header is header
read_csv(file, header) ==
    [c \in 1..Len(header) |->
        Col(header[c], CsvDtype(header[c]), CsvValues(file, header[c]))]

\* What the data directory can hold when the run starts.  basic_preprocess is a
\* function of the two tables and of the encoding: whether it raises on them
\* (LabelEncoder on a column of mixed types, say) is a property of the data.
DataDirs ==
    { [analysis |-> a, train_file |-> tr, test_file |-> te,
       train_columns |-> cp[1], test_columns |-> cp[2],
       label_encoding_error |-> le, frequency_encoding_error |-> fe] :
        a \in BOOLEAN, tr \in BOOLEAN, te \in BOOLEAN, cp \in ColumnPairs,
        le \in {None, Some("bad value")}, fe \in {None, Some("bad value")} }

find_target_column(train_cols, test_cols) ==
    LET id_names == {"id", "Id", "ID", "PassengerId", "passangerid"}
        hits == { i \in 1..Len(train_cols) :
                    /\ train_cols[i] \notin Range(test_cols)
                    /\ train_cols[i] \notin id_names }
    IN IF hits = {} THEN None
       ELSE Some(train_cols[CHOOSE i \in hits : \A j \in hits : i <= j])

\* detect_target of data_analyzer, whose result is stored as
\* _meta.target_column of the profiling report
detect_target(train_cols, test_cols) ==
    LET id_names == {"id", "Id", "ID", "PassengerId"}
        candidates == (Range(train_cols) \ Range(test_cols)) \ id_names
        hits == { i \in 1..Len(train_cols) : train_cols[i] \in candidates }
    IN IF Cardinality(candidates) = 1
       THEN Some(CHOOSE col \in candidates : TRUE)
       ELSE IF hits = {} THEN None
       ELSE Some(train_cols[CHOOSE i \in hits : \A j \in hits : i <= j])

\* ------------------------------------- the two target detections side by side

ColumnNames == {"Id", "PassengerId", "passangerid", "x", "y"}

\* Headers of a table: up to three columns, no name twice.
Headers ==
    { h \in UNION { [1..n -> ColumnNames] : n \in 0..3 } :
        \A i, j \in 1..Len(h) : h[i] = h[j] => i = j }

TargetInit ==
    /\ pc = "target_call"
    /\ train_columns \in Headers
    /\ test_columns \in Headers
    /\ target_col = None
    /\ analysis = NoAnalysis
    /\ registry = PAPER_REGISTRY
    /\ context = None
    /\ max_papers = DEFAULT_MAX_PAPERS
    /\ matched_papers = << >>
    /\ argc = 0
    /\ data_dir = NoData
    /\ idx = 0
    /\ results = << >>
    /\ baseline_score = None
    /\ events = << >>
    /\ exit_status = None
    /\ uncaught = FALSE
    /\ raised = None
    /\ submission = None
    /\ knowledge_graph = None
    /\ train_df = << >>
    /\ test_df = << >>
    /\ preprocessed = None
    /\ pipeline = None
    /\ returned = None

\* The analyzer and the runner each detect the target of the same two tables.
TargetCall ==
    /\ pc = "target_call"
    /\ analysis' = [analysis EXCEPT
                       !.target_column =
                           detect_target(train_columns, test_columns)]
    /\ target_col' = find_target_column(train_columns, test_columns)
    /\ pc' = "target_done"
    /\ UNCHANGED << train_df, test_df, preprocessed, pipeline, returned,
                    registry, argc, data_dir, context, max_papers,
                    matched_papers, train_columns, test_columns, idx, results,
                    baseline_score, events, exit_status, uncaught, raised,
                    submission, knowledge_graph >>

TargetNext == TargetCall

TargetSpec == TargetInit /\ [][TargetNext]_vars

\* One JSON line; the fields an event does not carry are left at their default.
Event(name) ==
    [event |-> name, id |-> 0, paper_id |-> "", message |-> "", count |-> 0,
     cv_score |-> None]

\* -------------------------------------- the pseudo-label handler on its own

\* Test rows by the largest class probability the fitted model gives them:
\* k rows above 0.9, b rows at 0.9 and l rows below.
MaxProba(k, b, l) ==
    [j \in 1..k |-> 95] \o [j \in 1..b |-> 90] \o [j \in 1..l |-> 50]

\* Fitted estimators with and without predict_proba.
Pipelines ==
    { [predict_proba |-> IF has THEN Some(MaxProba(k, b, l)) ELSE None,
       predict |-> [j \in 1..(k + b + l) |-> Num(j % 2, 1)]] :
        has \in BOOLEAN, k \in 0..MaxConfident, b \in 0..2, l \in 0..1 }

\* A preprocessed train table of two rows and a test table of n rows.
Prepared(n) ==
    [ X_train |-> << Col("x", "int64", << Num(1, 1), Num(2, 1) >>) >>,
      y_train |-> << Num(0, 1), Num(1, 1) >>,
      X_test |-> << Col("x", "int64", [j \in 1..n |-> Num(j, 1)]) >>,
      test_ids |-> None,
      id_col |-> None ]

PseudoInit ==
    /\ pc = "pseudo_call"
    /\ pipeline \in Pipelines
    /\ preprocessed = Some(Prepared(Len(pipeline.predict)))
    /\ returned = None
    /\ train_df = << >>
    /\ test_df = << >>
    /\ train_columns = << >>
    /\ test_columns = << >>
    /\ target_col = None
    /\ analysis = NoAnalysis
    /\ registry = PAPER_REGISTRY
    /\ context = None
    /\ max_papers = DEFAULT_MAX_PAPERS
    /\ matched_papers = << >>
    /\ argc = 0
    /\ data_dir = NoData
    /\ idx = 1
    /\ results = << >>
    /\ baseline_score = None
    /\ events = << >>
    /\ exit_status = None
    /\ uncaught = FALSE
    /\ raised = None
    /\ submission = None
    /\ knowledge_graph = None

\* The kipf2017 branch of the try block: the handler is called on the
\* preprocessed tables and its note is written as a log event.
PseudoCall ==
    /\ pc = "pseudo_call"
    /\ LET out == run_pseudo_label_experiment(pipeline,
                       preprocessed[1].X_train, preprocessed[1].y_train,
                       preprocessed[1].X_test)
       IN /\ returned' = Some(out)
          /\ events' = events
                \o (IF out.extra_info # ""
                    THEN << [Event("log") EXCEPT !.id = idx,
                                                 !.message = out.extra_info] >>
                    ELSE << >>)
    /\ pc' = "pseudo_done"
    /\ UNCHANGED << train_df, test_df, preprocessed, pipeline, registry,
                    analysis, argc, data_dir, context, max_papers,
                    matched_papers, train_columns, test_columns, target_col,
                    idx, results, baseline_score, exit_status, uncaught,
                    raised, submission, knowledge_graph >>

PseudoNext == PseudoCall

PseudoSpec == PseudoInit /\ [][PseudoNext]_vars

\* sys.exit(code) after the events evs have been written
Exit(code) ==
    /\ exit_status' = Some(code)
    /\ pc' = "exited"

\* An exception leaves main(): the interpreter prints a traceback on stderr and
\* ends the process with status 1; nothing is written to the event stream.
Uncaught(stage, message) ==
    /\ raised' = Some([stage |-> stage, message |-> message])
    /\ uncaught' = TRUE
    /\ exit_status' = Some(1)
    /\ pc' = "exited"
    /\ UNCHANGED events

Init ==
    /\ pc = "start"
    /\ registry = PAPER_REGISTRY
    /\ analysis = NoAnalysis
    /\ argc \in {3, 4}
    /\ data_dir \in DataDirs
    /\ context \in RunContexts
    /\ max_papers = MAX_PAPERS
    /\ matched_papers = << >>
    /\ train_columns = << >>
    /\ test_columns = << >>
    /\ target_col = None
    /\ idx = 0
    /\ results = << >>
    /\ baseline_score = None
    /\ events = << >>
    /\ exit_status = None
    /\ uncaught = FALSE
    /\ raised = None
    /\ submission = None
    /\ knowledge_graph = None
    /\ train_df = << >>
    /\ test_df = << >>
    /\ preprocessed = None
    /\ pipeline = None
    /\ returned = None

\* ----------------------------------------------- main(): the checks up front

\* len(sys.argv) < 4
BadUsage ==
    /\ pc = "start"
    /\ argc < 4
    /\ events' = Append(events, [Event("error") EXCEPT !.message = "usage"])
    /\ Exit(1)
    /\ UNCHANGED << train_df, test_df, preprocessed, pipeline, returned,
                    registry, analysis, argc, data_dir,
                    context, max_papers, matched_papers,
                    train_columns, test_columns, target_col, idx, results,
                    baseline_score, uncaught, raised, submission,
                    knowledge_graph >>

\* analysis.json is not in the data directory
AnalysisMissing ==
    /\ pc = "start"
    /\ argc >= 4
    /\ ~data_dir.analysis
    /\ events' = Append(events, [Event("error") EXCEPT
                                    !.message = "analysis.json not found"])
    /\ Exit(1)
    /\ UNCHANGED << train_df, test_df, preprocessed, pipeline, returned,
                    registry, analysis, argc, data_dir,
                    context, max_papers, matched_papers,
                    train_columns, test_columns, target_col, idx, results,
                    baseline_score, uncaught, raised, submission,
                    knowledge_graph >>

\* analysis.json is there: the context is built, then the csv files are looked up
FilesMissing ==
    /\ pc = "start"
    /\ argc >= 4
    /\ data_dir.analysis
    /\ ~data_dir.train_file \/ ~data_dir.test_file
    /\ events' = Append(events, [Event("error") EXCEPT
                                    !.message = "Could not find train.csv and test.csv"])
    /\ Exit(1)
    /\ UNCHANGED << train_df, test_df, preprocessed, pipeline, returned,
                    registry, analysis, argc, data_dir,
                    context, max_papers, matched_papers,
                    train_columns, test_columns, target_col, idx, results,
                    baseline_score, uncaught, raised, submission,
                    knowledge_graph >>

\* both tables are read
LoadData ==
    /\ pc = "start"
    /\ argc >= 4
    /\ data_dir.analysis
    /\ data_dir.train_file /\ data_dir.test_file
    /\ train_df' = read_csv("train", data_dir.train_columns)
    /\ test_df' = read_csv("test", data_dir.test_columns)
    /\ train_columns' = data_dir.train_columns
    /\ test_columns' = data_dir.test_columns
    /\ pc' = "find_target"
    /\ UNCHANGED << preprocessed, pipeline, returned,
                    registry, analysis, argc, data_dir,
                    context, max_papers, matched_papers,
                    target_col, idx, results, baseline_score, events,
                    exit_status, uncaught, raised, submission,
                    knowledge_graph >>

TargetUndetectedGoesOn ==
    /\ pc = "find_target"
    /\ find_target_column(train_columns, test_columns) = None
    /\ target_col' = None
    /\ events' = Append(events, [Event("error") EXCEPT
                                    !.message = "Could not detect target column"])
    /\ pc' = "paper_search"
    /\ UNCHANGED << train_df, test_df, preprocessed, pipeline, returned,
                    registry, analysis, argc, data_dir,
                    context, max_papers, matched_papers,
                    train_columns, test_columns, idx, results,
                    baseline_score, exit_status, uncaught, raised, submission,
                    knowledge_graph >>

\* find_target_column finds nothing
TargetUndetected ==
    /\ pc = "find_target"
    /\ find_target_column(train_columns, test_columns) = None
    /\ target_col' = None
    /\ events' = Append(events, [Event("error") EXCEPT
                                    !.message = "Could not detect target column"])
    /\ Exit(1)
    /\ UNCHANGED << train_df, test_df, preprocessed, pipeline, returned,
                    registry, analysis, argc, data_dir,
                    context, max_papers, matched_papers,
                    train_columns, test_columns, idx, results,
                    baseline_score, uncaught, raised, submission,
                    knowledge_graph >>

\* the target is found and pipeline_start is written
StartPipeline ==
    /\ pc = "find_target"
    /\ find_target_column(train_columns, test_columns) # None
    /\ target_col' = find_target_column(train_columns, test_columns)
    /\ events' = Append(events, Event("pipeline_start"))
    /\ pc' = "paper_search"
    /\ UNCHANGED << train_df, test_df, preprocessed, pipeline, returned,
                    registry, analysis, argc, data_dir,
                    context, max_papers, matched_papers,
                    train_columns, test_columns, idx, results,
                    baseline_score, exit_status, uncaught, raised, submission,
                    knowledge_graph >>

RECURSIVE MatchedEventsReversed(_)
MatchedEventsReversed(matches) ==
    IF matches = << >> THEN << >>
    ELSE MatchedEventsReversed(Tail(matches))
         \o << [Event("paper_matched") EXCEPT
                   !.paper_id = Head(matches).paper_id] >>

\* one paper_matched event per match, in the order of the list
RECURSIVE MatchedEvents(_)
MatchedEvents(matches) ==
    IF matches = << >> THEN << >>
    ELSE << [Event("paper_matched") EXCEPT !.paper_id = Head(matches).paper_id] >>
         \o MatchedEvents(Tail(matches))

\* the paper search, and the two locals the loop starts from
PaperSearch ==
    /\ pc = "paper_search"
    /\ LET found == find_relevant_papers(context, max_papers)
       IN /\ matched_papers' = found
          /\ events' = events
                       \o << Event("paper_search_start") >>
                       \o MatchedEvents(found)
                       \o << [Event("paper_search_done") EXCEPT
                                 !.count = Len(found)] >>
    /\ results' = << >>
    /\ baseline_score' = None
    /\ idx' = 1
    /\ pc' = "loop"
    /\ UNCHANGED << train_df, test_df, preprocessed, pipeline, returned,
                    registry, analysis, argc, data_dir,
                    context, max_papers, train_columns,
                    test_columns, target_col, exit_status, uncaught, raised,
                    submission, knowledge_graph >>

\* ------------------------------------------------ main(): the experiments

\* The strategy the loop is at.
CurrentMatch == matched_papers[idx]

\* What basic_preprocess(train_df, test_df, target_col, frequency_encode) raises.
basic_preprocess_error(frequency_encode) ==
    IF frequency_encode THEN data_dir.frequency_encoding_error
    ELSE data_dir.label_encoding_error

\* The note of the two special handlers ("" for the other strategies).
ExtraInfos(paper_id) ==
    CASE paper_id = "kipf2017" ->
             { run_pseudo_label_experiment(p,
                   Prepared(Len(p.predict)).X_train,
                   Prepared(Len(p.predict)).y_train,
                   Prepared(Len(p.predict)).X_test).extra_info :
                 p \in Pipelines }
      [] paper_id = "zoph2017" -> {"Best params"}
      [] OTHER -> {""}

AlwaysOverwrite(baseline, mean_score) == Some(mean_score)

\* if baseline_score is None: baseline_score = mean_score
TrackBaseline(baseline, mean_score) ==
    IF baseline = None THEN Some(mean_score) ELSE baseline

\* The loop header and the registry lookup: an identifier the registry does not
\* hold is passed over.
NextStrategy ==
    /\ pc = "loop"
    /\ idx <= Len(matched_papers)
    /\ IF get_paper_entry(CurrentMatch.paper_id) = None
       THEN /\ idx' = idx + 1
            /\ pc' = "loop"
       ELSE /\ idx' = idx
            /\ pc' = "preprocess"
    /\ raised' = None
    /\ UNCHANGED << train_df, test_df, preprocessed, pipeline, returned,
                    registry, analysis, argc, data_dir,
                    context, max_papers, matched_papers,
                    train_columns, test_columns, target_col, results,
                    baseline_score, events, exit_status, uncaught, submission,
                    knowledge_graph >>

\* basic_preprocess raises: the call is outside the try block
PreprocessRaises ==
    /\ pc = "preprocess"
    /\ basic_preprocess_error(CurrentMatch.paper_id = "mikolov2013") # None
    /\ Uncaught("preprocess",
                basic_preprocess_error(CurrentMatch.paper_id = "mikolov2013")[1])
    /\ UNCHANGED << train_df, test_df, preprocessed, pipeline, returned,
                    registry, analysis, argc, data_dir,
                    context, max_papers, matched_papers,
                    train_columns, test_columns, target_col, idx, results,
                    baseline_score, submission, knowledge_graph >>

\* use_freq = paper_id == 'mikolov2013'; basic_preprocess returns
Preprocess ==
    /\ pc = "preprocess"
    /\ basic_preprocess_error(CurrentMatch.paper_id = "mikolov2013") = None
    /\ LET use_freq == CurrentMatch.paper_id = "mikolov2013"
           out == basic_preprocess(train_df, test_df, target_col[1], use_freq)
       IN /\ train_df' = out.train_df
          /\ test_df' = out.test_df
          /\ preprocessed' = Some(out.result)
    /\ pc' = "build"
    /\ UNCHANGED << pipeline, returned,
                    registry, analysis, argc, data_dir,
                    context, max_papers, matched_papers,
                    train_columns, test_columns, target_col, idx, results,
                    baseline_score, events, exit_status, uncaught, raised,
                    submission, knowledge_graph >>

\* build_experiment_pipeline: the factory raises; the call is outside the try block
BuildPipelineRaises ==
    /\ pc = "build"
    /\ \E message \in ErrorMessages : Uncaught("build", message)
    /\ UNCHANGED << train_df, test_df, preprocessed, pipeline, returned,
                    registry, analysis, argc, data_dir,
                    context, max_papers, matched_papers,
                    train_columns, test_columns, target_col, idx, results,
                    baseline_score, submission, knowledge_graph >>

\* build_experiment_pipeline returns and experiment_start is written
BuildPipeline ==
    /\ pc = "build"
    /\ events' = Append(events, [Event("experiment_start") EXCEPT
                                    !.id = idx,
                                    !.paper_id = CurrentMatch.paper_id])
    /\ pc' = "execute"
    /\ UNCHANGED << train_df, test_df, preprocessed, pipeline, returned,
                    registry, analysis, argc, data_dir,
                    context, max_papers, matched_papers,
                    train_columns, test_columns, target_col, idx, results,
                    baseline_score, exit_status, uncaught, raised, submission,
                    knowledge_graph >>

ExecuteRaisesAborts ==
    /\ pc = "execute"
    /\ \E message \in ErrorMessages : Uncaught("execute", message)
    /\ UNCHANGED << train_df, test_df, preprocessed, pipeline, returned,
                    registry, analysis, argc, data_dir,
                    context, max_papers, matched_papers,
                    train_columns, test_columns, target_col, idx, results,
                    baseline_score, submission, knowledge_graph >>

\* The try block raises (cross-validation, fit or predict of any of the four
\* execution modes): except Exception writes experiment_error and continues.
ExecuteRaises ==
    /\ pc = "execute"
    /\ \E message \in ErrorMessages :
          /\ raised' = Some([stage |-> "execute", message |-> message])
          /\ events' = Append(events, [Event("experiment_error") EXCEPT
                                          !.id = idx,
                                          !.paper_id = CurrentMatch.paper_id,
                                          !.message = message])
    /\ idx' = idx + 1
    /\ pc' = "loop"
    /\ UNCHANGED << train_df, test_df, preprocessed, pipeline, returned,
                    registry, analysis, argc, data_dir,
                    context, max_papers, matched_papers,
                    train_columns, test_columns, target_col, results,
                    baseline_score, exit_status, uncaught, submission,
                    knowledge_graph >>

OutcomeRenumbered(i, match, mean_score) ==
    [id |-> Len(results) + 1, paper_id |-> match.paper_id,
     technique |-> match.technique, cv_score |-> mean_score,
     is_winner |-> FALSE]

\* The dict appended to results for the strategy of sequence index i.
Outcome(i, match, mean_score) ==
    [id |-> i, paper_id |-> match.paper_id, technique |-> match.technique,
     cv_score |-> mean_score, is_winner |-> FALSE]

\* The try block runs to its end: the note, the baseline, experiment_result and
\* the outcome appended to results.
ExecuteCompletes ==
    /\ pc = "execute"
    /\ \E mean_score \in Scores, extra_info \in ExtraInfos(CurrentMatch.paper_id) :
          /\ events' = events
                \o (IF extra_info # ""
                    THEN << [Event("log") EXCEPT !.id = idx,
                                                 !.message = extra_info] >>
                    ELSE << >>)
                \o << [Event("experiment_result") EXCEPT
                          !.id = idx,
                          !.paper_id = CurrentMatch.paper_id,
                          !.cv_score = Some(mean_score)] >>
          /\ baseline_score' = TrackBaseline(baseline_score, mean_score)
          /\ results' = Append(results,
                               Outcome(idx, CurrentMatch, mean_score))
    /\ idx' = idx + 1
    /\ pc' = "loop"
    /\ UNCHANGED << train_df, test_df, preprocessed, pipeline, returned,
                    registry, analysis, argc, data_dir,
                    context, max_papers, matched_papers,
                    train_columns, test_columns, target_col, exit_status,
                    uncaught, raised, submission, knowledge_graph >>

\* ------------------------------------- main(): winner, submission and graph

RECURSIVE InsertAscending(_, _)
InsertAscending(sorted, r) ==
    IF sorted = << >> THEN << r >>
    ELSE IF Head(sorted).cv_score <= r.cv_score
         THEN << Head(sorted) >> \o InsertAscending(Tail(sorted), r)
         ELSE << r >> \o sorted

RECURSIVE sorted_ascending(_)
sorted_ascending(rs) ==
    IF rs = << >> THEN << >>
    ELSE InsertAscending(sorted_ascending(SubSeq(rs, 1, Len(rs) - 1)), rs[Len(rs)])

\* r goes behind every outcome whose score is at least its own: the sort is
\* stable, and reverse=True keeps outcomes of equal score in their order.
RECURSIVE InsertDescending(_, _)
InsertDescending(sorted, r) ==
    IF sorted = << >> THEN << r >>
    ELSE IF Head(sorted).cv_score >= r.cv_score
         THEN << Head(sorted) >> \o InsertDescending(Tail(sorted), r)
         ELSE << r >> \o sorted

\* sorted(results, key=lambda r: r['cv_score'], reverse=True)
RECURSIVE sorted_by_cv_score(_)
sorted_by_cv_score(rs) ==
    IF rs = << >> THEN << >>
    ELSE InsertDescending(sorted_by_cv_score(SubSeq(rs, 1, Len(rs) - 1)),
                          rs[Len(rs)])

\* The nodes and edges of the matched strategies.
RECURSIVE PaperNodes(_)
PaperNodes(matches) ==
    IF matches = << >> THEN << >>
    ELSE << [id |-> <<"paper", Head(matches).paper_id>>, type |-> "paper",
             cv_score |-> None, status |-> "", is_winner |-> FALSE],
            [id |-> <<"tech", Head(matches).paper_id>>, type |-> "technique",
             cv_score |-> None, status |-> "", is_winner |-> FALSE] >>
         \o PaperNodes(Tail(matches))

RECURSIVE PaperEdges(_)
PaperEdges(matches) ==
    IF matches = << >> THEN << >>
    ELSE << [source |-> <<"paper", Head(matches).paper_id>>,
             target |-> <<"tech", Head(matches).paper_id>>,
             type |-> "inspires"] >>
         \o PaperEdges(Tail(matches))

ResultStatusAtLeast(r, baseline) ==
    IF r.is_winner THEN "winner"
    ELSE IF r.cv_score >= baseline THEN "proven" ELSE "unproven"

\* status of a result node
ResultStatus(r, baseline) ==
    IF r.is_winner THEN "winner"
    ELSE IF r.cv_score > baseline THEN "proven" ELSE "unproven"

RECURSIVE ResultNodes(_, _)
ResultNodes(rs, baseline) ==
    IF rs = << >> THEN << >>
    ELSE << [id |-> <<"result", ToString(Head(rs).id)>>, type |-> "result",
             cv_score |-> Some(Head(rs).cv_score),
             status |-> ResultStatus(Head(rs), baseline),
             is_winner |-> Head(rs).is_winner] >>
         \o ResultNodes(Tail(rs), baseline)

RECURSIVE ResultEdgesFromPaper(_)
ResultEdgesFromPaper(rs) ==
    IF rs = << >> THEN << >>
    ELSE << [source |-> <<"paper", Head(rs).paper_id>>,
             target |-> <<"result", ToString(Head(rs).id)>>,
             type |-> "produces"] >>
         \o ResultEdgesFromPaper(Tail(rs))

RECURSIVE ResultEdges(_)
ResultEdges(rs) ==
    IF rs = << >> THEN << >>
    ELSE << [source |-> <<"tech", Head(rs).paper_id>>,
             target |-> <<"result", ToString(Head(rs).id)>>,
             type |-> "produces"] >>
         \o ResultEdges(Tail(rs))

WinnerNotCounted(matches, rs, baseline, best_score) ==
    LET nodes == PaperNodes(matches) \o ResultNodes(rs, baseline)
    IN [ nodes |-> nodes,
         edges |-> PaperEdges(matches) \o ResultEdges(rs),
         baseline_score |-> baseline,
         best_score |-> best_score,
         proven |-> Cardinality({ i \in 1..Len(nodes) :
                                    nodes[i].status = "proven" }),
         unproven |-> Cardinality({ i \in 1..Len(nodes) :
                                      nodes[i].status = "unproven" }) ]

\* Scores are exact here, so round(score, 4) leaves them as they are.
build_knowledge_graph(matches, rs, baseline, best_score) ==
    LET nodes == PaperNodes(matches) \o ResultNodes(rs, baseline)
    IN [ nodes |-> nodes,
         edges |-> PaperEdges(matches) \o ResultEdges(rs),
         baseline_score |-> baseline,
         best_score |-> best_score,
         proven |-> Cardinality({ i \in 1..Len(nodes) :
                                    nodes[i].status \in {"proven", "winner"} }),
         unproven |-> Cardinality({ i \in 1..Len(nodes) :
                                      nodes[i].status = "unproven" }) ]

\* The loop is over and results is empty.
NoExperimentCompleted ==
    /\ pc = "loop"
    /\ idx > Len(matched_papers)
    /\ results = << >>
    /\ events' = Append(events, [Event("error") EXCEPT
                                    !.message = "No experiments completed successfully"])
    /\ Exit(1)
    /\ UNCHANGED << train_df, test_df, preprocessed, pipeline, returned,
                    registry, analysis, argc, data_dir,
                    context, max_papers, matched_papers,
                    train_columns, test_columns, target_col, idx, results,
                    baseline_score, uncaught, raised, submission,
                    knowledge_graph >>

\* The loop is over: the head of the sorted outcomes is flagged (the sorted
\* list holds the same dicts as results) and best_selected is written.
SelectWinner ==
    /\ pc = "loop"
    /\ idx > Len(matched_papers)
    /\ results # << >>
    /\ LET winner == sorted_by_cv_score(results)[1]
       IN /\ results' = [ i \in 1..Len(results) |->
                            IF results[i].id = winner.id
                            THEN [results[i] EXCEPT !.is_winner = TRUE]
                            ELSE results[i] ]
          /\ events' = Append(events, [Event("best_selected") EXCEPT
                                          !.id = winner.id,
                                          !.paper_id = winner.paper_id,
                                          !.cv_score = Some(winner.cv_score)])
    /\ pc' = "submission"
    /\ UNCHANGED << train_df, test_df, preprocessed, pipeline, returned,
                    registry, analysis, argc, data_dir,
                    context, max_papers, matched_papers,
                    train_columns, test_columns, target_col, idx,
                    baseline_score, exit_status, uncaught, raised, submission,
                    knowledge_graph >>

\* The outcome flagged by SelectWinner.
Winner == results[CHOOSE i \in 1..Len(results) : results[i].is_winner]

\* astype(int), the second preprocessing pass or to_csv raises
SubmissionRaises ==
    /\ pc = "submission"
    /\ \E message \in ErrorMessages : Uncaught("submission", message)
    /\ UNCHANGED << train_df, test_df, preprocessed, pipeline, returned,
                    registry, analysis, argc, data_dir,
                    context, max_papers, matched_papers,
                    train_columns, test_columns, target_col, idx, results,
                    baseline_score, submission, knowledge_graph >>

\* submission.csv is written from the winner's predictions
WriteSubmission ==
    /\ pc = "submission"
    /\ LET out == basic_preprocess(train_df, test_df, target_col[1], FALSE)
           test_ids == out.result.test_ids
           id_col == out.result.id_col
       IN /\ train_df' = out.train_df
          /\ test_df' = out.test_df
          /\ preprocessed' = Some([preprocessed[1] EXCEPT
                                      !.test_ids = test_ids,
                                      !.id_col = id_col])
          /\ submission' =
                Some(IF test_ids # None /\ id_col # None
                     THEN [winner |-> Winner.paper_id, id_col |-> id_col[1],
                           ids |-> test_ids[1]]
                     ELSE [winner |-> Winner.paper_id, id_col |-> "Id",
                           ids |-> [j \in 1..NRows(test_df) |->
                                       Num(j - 1, 1)]])
    /\ events' = Append(events, [Event("submission_ready") EXCEPT
                                    !.paper_id = Winner.paper_id,
                                    !.cv_score = Some(Winner.cv_score)])
    /\ pc' = "graph"
    /\ UNCHANGED << pipeline, returned,
                    registry, analysis, argc, data_dir,
                    context, max_papers, matched_papers,
                    train_columns, test_columns, target_col, idx, results,
                    baseline_score, exit_status, uncaught, raised,
                    knowledge_graph >>

\* os.makedirs, open or json.dump raises while the graph is written
GraphRaises ==
    /\ pc = "graph"
    /\ \E message \in ErrorMessages : Uncaught("graph", message)
    /\ baseline_score' = IF baseline_score = None THEN Some(0) ELSE baseline_score
    /\ UNCHANGED << train_df, test_df, preprocessed, pipeline, returned,
                    registry, analysis, argc, data_dir,
                    context, max_papers, matched_papers,
                    train_columns, test_columns, target_col, idx, results,
                    submission, knowledge_graph >>

\* knowledge_graph.json is written, knowledge_graph_built follows, sys.exit(0)
BuildGraph ==
    /\ pc = "graph"
    /\ baseline_score' = IF baseline_score = None THEN Some(0) ELSE baseline_score
    /\ LET kg == build_knowledge_graph(matched_papers, results,
                                       baseline_score'[1], Winner.cv_score)
       IN /\ knowledge_graph' = Some(kg)
          /\ events' = Append(events, [Event("knowledge_graph_built") EXCEPT
                                          !.count = Len(kg.nodes)])
    /\ Exit(0)
    /\ UNCHANGED << train_df, test_df, preprocessed, pipeline, returned,
                    registry, analysis, argc, data_dir,
                    context, max_papers, matched_papers,
                    train_columns, test_columns, target_col, idx, results,
                    uncaught, raised, submission >>

Next ==
    \/ BadUsage
    \/ AnalysisMissing
    \/ FilesMissing
    \/ LoadData
    \/ TargetUndetected
    \/ StartPipeline
    \/ PaperSearch
    \/ NextStrategy
    \/ PreprocessRaises
    \/ Preprocess
    \/ BuildPipelineRaises
    \/ BuildPipeline
    \/ ExecuteRaises
    \/ ExecuteCompletes
    \/ NoExperimentCompleted
    \/ SelectWinner
    \/ SubmissionRaises
    \/ WriteSubmission
    \/ GraphRaises
    \/ BuildGraph

Spec == Init /\ [][Next]_vars

\* ------------------------------------------------- claims about the matcher

\* Registry positions whose predicate holds on ctx.
Relevant(ctx) ==
    { i \in 1..Len(PAPER_REGISTRY) : relevance_fn(PAPER_REGISTRY[i], ctx) }

\* Registry positions the matcher files as universal.
Universal ==
    { i \in 1..Len(PAPER_REGISTRY) :
        relevance_fn(PAPER_REGISTRY[i], ReferenceContext) }

\* Registry position of a match.
Pos(m) == CHOOSE i \in 1..Len(PAPER_REGISTRY) :
              PAPER_REGISTRY[i].paper_id = m.paper_id

\* Position i comes before position j in the matcher's output order.
Before(i, j) ==
    \/ i \notin Universal /\ j \in Universal
    \/ (i \in Universal <=> j \in Universal) /\ i < j

\* C1: for every context and every cap max_papers >= 0, find_relevant_papers
\* returns at most max_papers matches.
C1_AtMostMaxPapers ==
    (pc = "match_done" /\ max_papers >= 0)
        => Len(matched_papers) <= max_papers

\* The default cap 8 cuts a longer list of relevant descriptors down to 8.
C1_Witness ==
    /\ pc = "match_done"
    /\ max_papers = 8
    /\ Cardinality(Relevant(context)) > 8
    /\ Len(matched_papers) = 8

\* C2: in the output every context-specific match precedes every universal
\* match, each group is in registry order, and the cap drops matches from the
\* end of that combined order only.
C2_SpecificFirstRegistryOrder ==
    (pc = "match_done" /\ max_papers >= 0) =>
        LET out == matched_papers
            kept == { Pos(out[k]) : k \in 1..Len(out) }
        IN /\ \A k \in 1..Len(out) :
                /\ Pos(out[k]) \in Relevant(context)
                /\ out[k] = Match(PAPER_REGISTRY[Pos(out[k])])
           /\ \A k, l \in 1..Len(out) :
                k < l => Before(Pos(out[k]), Pos(out[l]))
           /\ \A r \in Relevant(context) \ kept :
                \A i \in kept : Before(i, r)
           /\ Len(out) = Min(max_papers, Cardinality(Relevant(context)))

\* A capped output holding both groups: only universal matches were dropped.
C2_Witness ==
    /\ pc = "match_done"
    /\ max_papers >= 0
    /\ Len(matched_papers) < Cardinality(Relevant(context))
    /\ \E k \in 1..Len(matched_papers) : Pos(matched_papers[k]) \notin Universal
    /\ \E k \in 1..Len(matched_papers) : Pos(matched_papers[k]) \in Universal
    /\ \E k \in 2..Len(matched_papers) :
           Pos(matched_papers[k]) < Pos(matched_papers[k - 1])

\* --------------------------------------------------- claims about the runs

EventNames == { events[i].event : i \in 1..Len(events) }

LastEvent == events[Len(events)]

Exited == exit_status # None

\* C3: after winner selection exactly one outcome is flagged is_winner; its
\* score is at least every other outcome's and, among the outcomes of that
\* score, its sequence index is the smallest.  Before, no outcome is flagged.
C3_WinnerIsEarliestMaximum ==
    LET flagged == { i \in 1..Len(results) : results[i].is_winner }
    IN IF "best_selected" \in EventNames
       THEN \E w \in flagged :
               /\ flagged = {w}
               /\ \A j \in 1..Len(results) :
                     /\ results[w].cv_score >= results[j].cv_score
                     /\ results[j].cv_score = results[w].cv_score
                           => results[w].id <= results[j].id
       ELSE flagged = {}

\* The winner is the second of three outcomes: it ties with the third and
\* beats the first.
C3_Witness ==
    /\ "best_selected" \in EventNames
    /\ Len(results) >= 3
    /\ results[1].cv_score < results[2].cv_score
    /\ results[2].cv_score = results[3].cv_score
    /\ results[2].is_winner

\* C4: a strategy whose execution raises gets an experiment_error event with
\* its index, identifier and message, adds no outcome, leaves the baseline and
\* the outcomes as they were, and the loop goes on to the next strategy.
C4_ExecutionFailureIsSkipped ==
    [][ (pc = "execute" /\ raised' # None /\ raised'[1].stage = "execute")
          => /\ events' = Append(events,
                    [Event("experiment_error") EXCEPT
                        !.id = idx,
                        !.paper_id = matched_papers[idx].paper_id,
                        !.message = raised'[1].message])
             /\ results' = results
             /\ baseline_score' = baseline_score
             /\ matched_papers' = matched_papers
             /\ exit_status' = None
             /\ pc' = "loop"
             /\ idx' = idx + 1 ]_vars

\* The second strategy raised between two strategies that completed.
C4_Witness ==
    /\ Len(results) = 2
    /\ results[1].id = 1
    /\ results[2].id = 3
    /\ baseline_score = Some(results[1].cv_score)
    /\ \E i \in 1..Len(events) :
          /\ events[i].event = "experiment_error"
          /\ events[i].id = 2

\* C5: a failure raised while the pipeline is constructed is caught, reported
\* by an experiment_error event with the identifier and the message, and the
\* run goes on with the next strategy.
C5_ConstructionFailureIsCaught ==
    (raised # None /\ raised[1].stage = "build")
        => /\ ~uncaught
           /\ exit_status = None
           /\ events # << >>
           /\ LastEvent.event = "experiment_error"
           /\ LastEvent.paper_id = matched_papers[idx - 1].paper_id
           /\ LastEvent.message = raised[1].message

\* C6: when every matched strategy has been attempted and none completed, the
\* run ends with an error event, a non-zero status, no submission and no graph,
\* and no winner is selected.
C6_NoCompletionEndsInErrorEvent ==
    ( /\ Exited
      /\ "paper_search_done" \in EventNames
      /\ results = << >>
      /\ idx >= Len(matched_papers) )
        => /\ LastEvent.event = "error"
           /\ exit_status # Some(0)
           /\ submission = None
           /\ knowledge_graph = None
           /\ "best_selected" \notin EventNames

\* C7: a run that has ended has status 0 if and only if at least one strategy
\* completed and the submission was written.
C7_ExitZeroIffSubmissionWritten ==
    Exited => (exit_status = Some(0)
                  <=> (results # << >> /\ submission # None))

\* C8: a run that has ended with a non-zero status has an error event as the
\* last event of its stream.
C8_FailureEndsInErrorEvent ==
    (Exited /\ exit_status # Some(0))
        => (events # << >> /\ LastEvent.event = "error")

\* One of the fatal conditions main() checks before any experiment.
FatalPreExecution ==
    \/ ~data_dir.analysis
    \/ ~data_dir.train_file
    \/ ~data_dir.test_file
    \/ find_target_column(data_dir.train_columns, data_dir.test_columns) = None

\* C9: under a fatal pre-execution condition the run never gets to the paper
\* search, starts no experiment, writes no submission and no graph, and ends
\* with exactly one error event and a non-zero status.
C9_FatalPreExecution ==
    FatalPreExecution
        => /\ pc \in {"start", "find_target", "exited"}
           /\ "experiment_start" \notin EventNames
           /\ results = << >>
           /\ submission = None
           /\ knowledge_graph = None
           /\ Exited => /\ exit_status = Some(1)
                        /\ Len(events) = 1
                        /\ events[1].event = "error"

\* The run ended because no column of train.csv could be the target.
C9_Witness ==
    /\ Exited
    /\ argc >= 4
    /\ data_dir.analysis /\ data_dir.train_file /\ data_dir.test_file
    /\ find_target_column(train_columns, test_columns) = None
    /\ Len(train_columns) > 0
    /\ Len(events) = 1

\* C10: the baseline is the score of the first outcome of the list, which never
\* changes once it is there; a step that adds no outcome leaves the baseline
\* alone, and a baseline that is set is never changed.
C10_BaselineCapturedOnce ==
    [][ /\ baseline_score # None => baseline_score' = baseline_score
        /\ results' = results => baseline_score' = baseline_score
        /\ results # << >> =>
              /\ results' # << >>
              /\ results'[1].id = results[1].id
              /\ results'[1].cv_score = results[1].cv_score
        /\ results' = << >> <=> baseline_score' = None
        /\ results' # << >> => baseline_score' = Some(results'[1].cv_score) ]_vars

\* The first strategy raised, the second set the baseline, the third scored
\* higher and the fourth lower.
C10_Witness ==
    /\ Len(results) >= 3
    /\ results[1].id = 2
    /\ baseline_score = Some(results[1].cv_score)
    /\ results[2].cv_score > results[1].cv_score
    /\ results[3].cv_score < results[1].cv_score

\* ------------------------------------------ claims about the knowledge graph

\* The graph written to knowledge_graph.json (when there is one).
Graph == knowledge_graph[1]

NodesWithId(id) == { i \in 1..Len(Graph.nodes) : Graph.nodes[i].id = id }

ResultNodeIndexes == { i \in 1..Len(Graph.nodes) : Graph.nodes[i].type = "result" }

ResultId(r) == <<"result", ToString(r.id)>>

\* C11: the result node of an outcome is 'winner' if the outcome is flagged,
\* else 'proven' if its score is strictly above the baseline, else 'unproven'.
C11_ResultStatus ==
    knowledge_graph # None =>
        \A k \in 1..Len(results) :
            /\ NodesWithId(ResultId(results[k])) # {}
            /\ \A i \in NodesWithId(ResultId(results[k])) :
                  /\ Graph.nodes[i].type = "result"
                  /\ results[k].is_winner => Graph.nodes[i].status = "winner"
                  /\ (~results[k].is_winner
                      /\ results[k].cv_score > baseline_score[1])
                        => Graph.nodes[i].status = "proven"
                  /\ (~results[k].is_winner
                      /\ results[k].cv_score <= baseline_score[1])
                        => Graph.nodes[i].status = "unproven"

\* A graph with a winner, a proven node and, besides the baseline outcome, an
\* outcome that equals the baseline and is unproven.
C11_Witness ==
    /\ knowledge_graph # None
    /\ \E i \in ResultNodeIndexes : Graph.nodes[i].status = "winner"
    /\ \E i \in ResultNodeIndexes : Graph.nodes[i].status = "proven"
    /\ \E k \in 2..Len(results) :
          /\ results[k].cv_score = baseline_score[1]
          /\ \E i \in NodesWithId(ResultId(results[k])) :
                Graph.nodes[i].status = "unproven"

\* C12: 'proven' counts the result nodes that are proven or winner, 'unproven'
\* those that are unproven; together they are all the result nodes, one per
\* completed outcome.
C12_GraphCounts ==
    knowledge_graph # None =>
        /\ Graph.proven = Cardinality({ i \in ResultNodeIndexes :
                              Graph.nodes[i].status \in {"proven", "winner"} })
        /\ Graph.unproven = Cardinality({ i \in ResultNodeIndexes :
                                Graph.nodes[i].status = "unproven" })
        /\ Graph.proven + Graph.unproven = Cardinality(ResultNodeIndexes)
        /\ Cardinality(ResultNodeIndexes) = Len(results)
        /\ \E i \in ResultNodeIndexes : Graph.nodes[i].status = "winner"

\* A graph whose proven count is the winner plus one proven node, with an
\* unproven node besides.
C12_Witness ==
    /\ knowledge_graph # None
    /\ Graph.proven = 2
    /\ Graph.unproven >= 1
    /\ Cardinality({ i \in ResultNodeIndexes :
                       Graph.nodes[i].status = "winner" }) = 1

EdgesLike(source, target, type) ==
    { i \in 1..Len(Graph.edges) :
        /\ Graph.edges[i].source = source
        /\ Graph.edges[i].target = target
        /\ Graph.edges[i].type = type }

\* Sequence indexes of the strategies whose execution raised.
FailedIndexes ==
    { events[i].id : i \in { j \in 1..Len(events) :
                               events[j].event = "experiment_error" } }

\* C13: every matched strategy, failed or not, has one paper node and one
\* technique node joined by one inspires edge; every completed outcome has one
\* result node with one produces edge coming from the technique node of its
\* strategy; every edge joins two nodes of the graph, and a strategy that
\* failed has no result node.
C13_GraphStructure ==
    knowledge_graph # None =>
        /\ \A k \in 1..Len(matched_papers) :
              LET paper == <<"paper", matched_papers[k].paper_id>>
                  tech == <<"tech", matched_papers[k].paper_id>>
              IN /\ Cardinality(NodesWithId(paper)) = 1
                 /\ Cardinality(NodesWithId(tech)) = 1
                 /\ \A i \in NodesWithId(paper) : Graph.nodes[i].type = "paper"
                 /\ \A i \in NodesWithId(tech) : Graph.nodes[i].type = "technique"
                 /\ Cardinality(EdgesLike(paper, tech, "inspires")) = 1
        /\ \A k \in 1..Len(results) :
              /\ Cardinality(NodesWithId(ResultId(results[k]))) = 1
              /\ Cardinality({ i \in 1..Len(Graph.edges) :
                                 Graph.edges[i].target = ResultId(results[k]) }) = 1
              /\ Cardinality(EdgesLike(<<"tech", results[k].paper_id>>,
                                       ResultId(results[k]), "produces")) = 1
              /\ \E m \in 1..Len(matched_papers) :
                    /\ m = results[k].id
                    /\ matched_papers[m].paper_id = results[k].paper_id
        /\ \A i \in 1..Len(Graph.edges) :
              /\ NodesWithId(Graph.edges[i].source) # {}
              /\ NodesWithId(Graph.edges[i].target) # {}
        /\ Len(Graph.nodes) = 2 * Len(matched_papers) + Len(results)
        /\ Len(Graph.edges) = Len(matched_papers) + Len(results)
        /\ \A f \in FailedIndexes : NodesWithId(<<"result", ToString(f)>>) = {}

\* A graph of a run in which the second strategy failed and two completed.
C13_Witness ==
    /\ knowledge_graph # None
    /\ 2 \in FailedIndexes
    /\ Len(results) >= 2
    /\ NodesWithId(<<"tech", matched_papers[2].paper_id>>) # {}

\* ------------------------------------------------ claims about the matcher

Techniques == [ k \in 1..Len(matched_papers) |-> matched_papers[k].technique ]

\* Output positions of a technique.
At(t) == { k \in 1..Len(matched_papers) : matched_papers[k].technique = t }

ContextSpecificNames ==
    {"Frequency Encoding", "Aggressive Scaling", "Residual Features"}

AlwaysTrueNames ==
    {"Adaptive LR GBM", "Hyperparameter Search", "Ensemble Scaling"}

RoundTripCall ==
    /\ pc = "match_done"
    /\ context = RoundTripContext
    /\ max_papers = DEFAULT_MAX_PAPERS

\* C14 as stated: on the small mixed classification table and with the default
\* cap, the output holds 'Frequency Encoding', 'Aggressive Scaling' and
\* 'Residual Features' and, after them, 'Adaptive LR GBM', 'Hyperparameter
\* Search' and 'Ensemble Scaling'.
C14_AlwaysTrueFollowInOutput ==
    RoundTripCall =>
        \A s \in ContextSpecificNames : \A u \in AlwaysTrueNames :
            \E i \in At(s) : \E j \in At(u) : i < j

\* C14 amended: on that table and with the default cap, the three strategies
\* are selected as context-specific matches, and the output is the eight
\* context-specific matches in registry order: no always-true strategy is in
\* it. Under any cap, an always-true strategy that is in the output comes
\* after every context-specific match.
C14_ContextSpecificFillTheCap ==
    /\ RoundTripCall =>
          /\ \A s \in ContextSpecificNames :
                \E i \in At(s) : Pos(matched_papers[i]) \notin Universal
          /\ Techniques = << "Dropout Regularization", "Aggressive Scaling",
                             "Residual Features", "Frequency Encoding",
                             "Feature Selection",
                             "Weight Decay + L1 Selection",
                             "Tree-based Selection", "Bagging Augmentation" >>
          /\ \A u \in AlwaysTrueNames : At(u) = {}
    /\ (pc = "match_done" /\ context = RoundTripContext /\ max_papers >= 0) =>
          \A s \in ContextSpecificNames : \A u \in AlwaysTrueNames :
              \A j \in At(u) : \E i \in At(s) : i < j

\* The call of the scenario has returned, with the three strategies in it.
C14_Witness ==
    /\ RoundTripCall
    /\ Len(matched_papers) = DEFAULT_MAX_PAPERS
    /\ \A s \in ContextSpecificNames : At(s) # {}

AllNumericCall ==
    /\ pc = "match_done"
    /\ context \in AllNumericContexts
    /\ max_papers = DEFAULT_MAX_PAPERS

\* C15 as stated: on the large table of three numeric features the matcher
\* returns exactly 'Adaptive LR GBM', 'Hyperparameter Search', 'Ensemble
\* Scaling'.
C15_OnlyAlwaysTrueMatch ==
    AllNumericCall =>
        Techniques = << "Adaptive LR GBM", "Hyperparameter Search",
                        "Ensemble Scaling" >>

\* C15 amended: on that table 'Aggressive Scaling' (numeric_ratio > 0.5) and
\* 'Residual Features' (numeric_count >= 2) match as context-specific and come
\* first; the always-true three follow in registry order, with
\* 'Pseudo-Labeling' among them when the problem is a classification.
C15_NumericThresholdsMatch ==
    AllNumericCall =>
        Techniques =
            IF context.problem_type = "classification"
            THEN << "Aggressive Scaling", "Residual Features",
                    "Adaptive LR GBM", "Pseudo-Labeling",
                    "Hyperparameter Search", "Ensemble Scaling" >>
            ELSE << "Aggressive Scaling", "Residual Features",
                    "Adaptive LR GBM", "Hyperparameter Search",
                    "Ensemble Scaling" >>

\* The call on the balanced classification table has returned.
C15_Witness ==
    /\ AllNumericCall
    /\ context.problem_type = "classification"
    /\ Len(matched_papers) = 6

\* Positions of the list in use whose predicate holds on the context.
RelevantIn(reg, ctx) == { i \in 1..Len(reg) : relevance_fn(reg[i], ctx) }

\* C18: when at most max_papers descriptors of the registry are relevant, the
\* matcher returns exactly those, each once; when none is relevant it returns
\* the empty list.
C18_AllRelevantUnpadded ==
    pc = "match_done" =>
        LET rel == RelevantIn(registry, context)
        IN /\ Cardinality(rel) <= max_papers =>
                /\ Len(matched_papers) = Cardinality(rel)
                /\ { matched_papers[k] : k \in 1..Len(matched_papers) }
                     = { Match(registry[i]) : i \in rel }
           /\ rel = {} => matched_papers = << >>

\* A registry that is not empty and has no relevant descriptor, with a cap
\* that leaves room.
C18_NoneRelevant ==
    /\ pc = "match_done"
    /\ registry # << >>
    /\ max_papers > 0
    /\ RelevantIn(registry, context) = {}
    /\ matched_papers = << >>

\* ---------------------------------------- claims about the context builder

\* C16: the numeric ratio of a built context lies in [0, 1]: the numeric
\* features are no more than max(num_features, 1), and the ratio is 0 when
\* there is no feature.
C16_NumericRatioInUnitInterval ==
    pc = "context_done" =>
        /\ context.numeric_ratio.den > 0
        /\ 0 <= context.numeric_ratio.num
        /\ context.numeric_ratio.num <= context.numeric_ratio.den
        /\ context.numeric_count <= Max(context.num_features, 1)
        /\ context.num_features = 0 => context.numeric_ratio.num = 0

\* A report whose only column is the numeric target: no feature is left.
C16_Witness ==
    /\ pc = "context_done"
    /\ analysis.train_file
    /\ Len(analysis.columns) = 1
    /\ analysis.columns[1].feature_type = "continuous"
    /\ analysis.target_column = Some("y")
    /\ context.num_features = 0
    /\ context.numeric_ratio = Ratio(0, 1)

\* Number of classes of the report's class balance.
Classes == IF analysis.class_balance = None THEN 0
           ELSE Len(analysis.class_balance[1])

\* C17: the class imbalance ratio of a built context is at least 1.0, and it
\* is exactly 1.0 when the report has fewer than two classes or no class
\* balance.
C17_ImbalanceRatioAtLeastOne ==
    pc = "context_done" =>
        /\ context.class_imbalance_ratio.den > 0
        /\ context.class_imbalance_ratio.num >= context.class_imbalance_ratio.den
        /\ Classes < 2 =>
              context.class_imbalance_ratio.num = context.class_imbalance_ratio.den

\* -------------------------------------- claims about runs with one failure

\* C19: a run with two matched strategies or more, exactly one of which raised
\* during execution, ends with winner selection over a non-empty outcome
\* list, a written submission, a built knowledge graph and status 0.
C19_OneExecutionFailureStillCompletes ==
    (Exited /\ Len(matched_papers) >= 2 /\ Cardinality(FailedIndexes) = 1) =>
        /\ exit_status = Some(0)
        /\ results # << >>
        /\ "best_selected" \in EventNames
        /\ submission # None
        /\ knowledge_graph # None

\* ------------------------------------------- claims about the event stream

\* Positions of the events of a name.
Idx(name) == { i \in 1..Len(events) : events[i].event = name }

ExperimentIdx ==
    Idx("experiment_start") \cup Idx("experiment_result")
        \cup Idx("experiment_error")

IsPaperMatched(e) == e.event = "paper_matched"

\* C20: in a run that exits with status 0, pipeline_start is the first event;
\* the paper_matched events are one per selected strategy, in matcher order;
\* the one paper_search_done follows them and its count is their number; the
\* experiment events all lie between paper_search_done and best_selected, in
\* matcher order, each strategy starting before it ends; submission_ready
\* follows best_selected and knowledge_graph_built is the last event.
C20_EventOrder ==
    exit_status = Some(0) =>
        LET matched == SelectSeq(events, IsPaperMatched)
        IN /\ events[1].event = "pipeline_start"
           /\ Idx("pipeline_start") = {1}
           /\ Len(matched) = Len(matched_papers)
           /\ \A k \in 1..Len(matched) :
                 matched[k].paper_id = matched_papers[k].paper_id
           /\ \E d \in Idx("paper_search_done") : \E b \in Idx("best_selected") :
              \E w \in Idx("submission_ready") :
                 /\ Idx("paper_search_done") = {d}
                 /\ Idx("best_selected") = {b}
                 /\ Idx("submission_ready") = {w}
                 /\ Idx("knowledge_graph_built") = {Len(events)}
                 /\ events[d].count = Len(matched)
                 /\ \A m \in Idx("paper_matched") : 1 < m /\ m < d
                 /\ \A e \in ExperimentIdx : d < e /\ e < b
                 /\ b < w /\ w < Len(events)
           /\ \A e, f \in ExperimentIdx :
                 /\ e < f => events[e].id <= events[f].id
                 /\ (e < f /\ events[e].id = events[f].id)
                       => events[e].event = "experiment_start"
           /\ \A e \in ExperimentIdx :
                 /\ events[e].id \in 1..Len(matched_papers)
                 /\ events[e].paper_id = matched_papers[events[e].id].paper_id
           /\ \A k \in 1..Len(matched_papers) :
                 /\ Cardinality({ e \in Idx("experiment_start") :
                                    events[e].id = k }) = 1
                 /\ Cardinality({ e \in Idx("experiment_result")
                                        \cup Idx("experiment_error") :
                                    events[e].id = k }) = 1

\* A run that exited with status 0 after a failed and a noted experiment.
C20_Witness ==
    /\ exit_status = Some(0)
    /\ Idx("experiment_error") # {}
    /\ Idx("log") # {}
    /\ Len(matched_papers) >= 4
    /\ LastEvent.event = "knowledge_graph_built"

\* ------------------------------- claims about the two lists of the matcher

\* The two lists the loop of find_relevant_papers fills for the context.
SpecificList == Collect(registry, context, FALSE)

UniversalList == Collect(registry, context, TRUE)

\* The supplied context, and the same dataset as a problem of each type.
BothProblemTypes ==
    { [context EXCEPT !.problem_type = t] :
        t \in {"classification", "regression"} }

\* C21: a relevant descriptor is filed as universal if and only if its
\* predicate is also true on the reference context, and as context-specific
\* otherwise; the list it is filed in is the same for every context it is
\* relevant to.
C21_UniversalIffTrueOnReference ==
    pc = "match_done" =>
        LET relevant == RelevantIn(registry, context)
            specific == Range(SpecificList)
            universal == Range(UniversalList)
        IN /\ matched_papers
                 = Slice(SpecificList \o UniversalList, max_papers)
           /\ \A i \in relevant :
                 /\ Match(registry[i]) \in universal
                       <=> relevance_fn(registry[i], ReferenceContext)
                 /\ Match(registry[i]) \in specific
                       <=> ~relevance_fn(registry[i], ReferenceContext)
           /\ \A c \in BothProblemTypes \cup {RoundTripContext} :
                 LET elsewhere == Range(Collect(registry, c, TRUE))
                 IN \A i \in relevant :
                       relevance_fn(registry[i], c) =>
                           (Match(registry[i]) \in elsewhere
                               <=> Match(registry[i]) \in universal)

\* A regression context far from the reference one, with matches in both
\* lists.
C21_Witness ==
    /\ pc = "match_done"
    /\ context.problem_type = "regression"
    /\ context.train_rows = 400
    /\ Len(SpecificList) >= 2
    /\ Len(UniversalList) = 3
    /\ Len(matched_papers) = Len(SpecificList) + Len(UniversalList)

\* C22: every match the matcher files as universal belongs to a descriptor
\* whose predicate is true for every dataset, of either problem type: one of
\* 'Adaptive LR GBM', 'Hyperparameter Search', 'Ensemble Scaling'.
C22_UniversalIsConstantTrue ==
    pc = "match_done" =>
        \A i \in RelevantIn(registry, context) :
            Match(registry[i]) \in Range(UniversalList) =>
                /\ registry[i].technique \in AlwaysTrueNames
                /\ \A c \in BothProblemTypes : relevance_fn(registry[i], c)

\* Registry positions of an identifier.
PositionsOf(paper_id) ==
    { i \in 1..Len(registry) : registry[i].paper_id = paper_id }

\* C30: the identifiers of the registry are pairwise distinct; every match of
\* the output comes from one descriptor, relevant to the context, no
\* identifier is matched twice, and get_paper_entry resolves each identifier
\* of the output to that descriptor.
C30_MatchesResolve ==
    pc = "match_done" =>
        /\ \A i, j \in 1..Len(registry) :
              registry[i].paper_id = registry[j].paper_id => i = j
        /\ \A k, l \in 1..Len(matched_papers) :
              matched_papers[k].paper_id = matched_papers[l].paper_id => k = l
        /\ \A k \in 1..Len(matched_papers) :
              /\ Cardinality(PositionsOf(matched_papers[k].paper_id)) = 1
              /\ \A i \in PositionsOf(matched_papers[k].paper_id) :
                    /\ relevance_fn(registry[i], context)
                    /\ matched_papers[k] = Match(registry[i])
                    /\ get_paper_entry(matched_papers[k].paper_id)
                         = Some(registry[i])

\* An output that holds the last descriptor of the registry and fills the
\* largest cap.
C30_Witness ==
    /\ pc = "match_done"
    /\ Len(matched_papers) = MaxCap
    /\ \E k \in 1..Len(matched_papers) :
          matched_papers[k].paper_id = registry[Len(registry)].paper_id

\* ------------------------------------------ claims about the experiment loop

Terminal == Idx("experiment_result") \cup Idx("experiment_error")

\* The loop has been entered and the process has ended.
RunOver == Exited /\ Idx("paper_search_done") # {}

\* C23: every matched strategy is attempted exactly once, in matcher order,
\* and each experiment_start is followed by exactly one terminal event of the
\* same sequence index (experiment_result or experiment_error) before the
\* next experiment_start.
C23_EachStrategyAttemptedOnce ==
    /\ \A e, f \in Idx("experiment_start") :
          e < f =>
             /\ events[e].id < events[f].id
             /\ Cardinality({ t \in Terminal :
                                /\ events[t].id = events[e].id
                                /\ e < t /\ t < f }) = 1
    /\ \A t \in Terminal :
          /\ \E e \in Idx("experiment_start") :
                e < t /\ events[e].id = events[t].id
          /\ \A u \in Terminal : events[u].id = events[t].id => u = t
    /\ RunOver =>
          \A k \in 1..Len(matched_papers) :
              /\ Cardinality({ e \in Idx("experiment_start") :
                                 events[e].id = k }) = 1
              /\ Cardinality({ t \in Terminal : events[t].id = k }) = 1

\* C24: the sequence index of a strategy is the 1-based position of its match
\* in the matcher output, in its experiment_start, experiment_result and
\* experiment_error events and in its outcome; a failed strategy keeps its
\* index, so the indices of the outcomes increase strictly along the list.
C24_SequenceIndexIsMatchPosition ==
    /\ \A e \in ExperimentIdx :
          /\ events[e].id \in 1..Len(matched_papers)
          /\ events[e].paper_id = matched_papers[events[e].id].paper_id
    /\ \A k \in 1..Len(results) :
          /\ results[k].id \in 1..Len(matched_papers)
          /\ results[k].paper_id = matched_papers[results[k].id].paper_id
          /\ \E e \in Idx("experiment_start") : events[e].id = results[k].id
          /\ \E e \in Idx("experiment_result") :
                /\ events[e].id = results[k].id
                /\ events[e].paper_id = results[k].paper_id
          /\ results[k].id \notin FailedIndexes
    /\ \A k, l \in 1..Len(results) : k < l => results[k].id < results[l].id

\* The second strategy failed between two that completed: the outcomes carry
\* the indices 1 and 3.
C24_Witness ==
    /\ Len(results) >= 2
    /\ results[1].id = 1
    /\ results[2].id = 3
    /\ 2 \in FailedIndexes

RECURSIVE MaxScoreOf(_)
MaxScoreOf(rs) ==
    IF Len(rs) = 1 THEN rs[1].cv_score
    ELSE Max(rs[1].cv_score, MaxScoreOf(Tail(rs)))

\* C27: in a knowledge graph the winner's score is at least the baseline
\* score: the baseline is the score of the first completed outcome and the
\* best score is the largest score of the completed outcomes.
C27_BestAtLeastBaseline ==
    knowledge_graph # None =>
        /\ Graph.best_score >= Graph.baseline_score
        /\ Graph.baseline_score = results[1].cv_score
        /\ Graph.best_score = MaxScoreOf(results)

\* A graph whose first strategy failed, whose baseline is the score of the
\* second, and whose winner beats it.
C27_Witness ==
    /\ knowledge_graph # None
    /\ 1 \in FailedIndexes
    /\ results[1].id = 2
    /\ Graph.best_score > Graph.baseline_score

\* Status of the result node of an outcome.
StatusOf(r) ==
    { Graph.nodes[i].status : i \in NodesWithId(ResultId(r)) }

\* C28: the result node of the first completed outcome is never 'proven': it
\* is 'winner' when that outcome is the winner and 'unproven' otherwise; when
\* it is the winner, every other result node is 'unproven' and the proven
\* count is 1.
C28_BaselineNodeNeverProven ==
    knowledge_graph # None =>
        /\ StatusOf(results[1])
             = IF results[1].is_winner THEN {"winner"} ELSE {"unproven"}
        /\ results[1].is_winner =>
              /\ \A k \in 2..Len(results) : StatusOf(results[k]) = {"unproven"}
              /\ Graph.proven = 1

\* The baseline outcome wins over two more outcomes, one of the same score.
C28_Witness ==
    /\ knowledge_graph # None
    /\ Len(results) >= 3
    /\ results[1].is_winner
    /\ \E k \in 2..Len(results) : results[k].cv_score = results[1].cv_score
    /\ \E k \in 2..Len(results) : results[k].cv_score < results[1].cv_score

\* ------------------------------------ claims about the target detections

\* C29: on every pair of headers the runner (find_target_column) and the
\* analyzer (detect_target, stored as _meta.target_column) detect the same
\* target column, and none in the same cases.
C29_SameTargetDetected ==
    pc = "target_done" => target_col = analysis.target_column

\* -------------------------------- claims about the pseudo-label handler

\* Test rows whose largest class probability is above 0.9.
ConfidentRows ==
    IF pipeline.predict_proba = None THEN {}
    ELSE { j \in 1..Len(pipeline.predict_proba[1]) :
             pipeline.predict_proba[1][j] > 90 }

\* Values of the column x of a table.
XValues(df) == df[1].values

\* The handler cross-validated and refitted on more than the train table.
Augmented == returned[1].fit.X # preprocessed[1].X_train

\* C25: the handler takes the augmented path if and only if the model has
\* class probabilities and more than 10 test rows have a largest probability
\* above 0.9: the confident test rows, labelled as the model predicts them,
\* are appended to the train table, which is cross-validated with 5 folds and
\* refitted.  Otherwise it cross-validates and fits on the train table alone.
\* On both paths there is one prediction per test row, and the note is not
\* empty, names the path, and is written as a log event.
C25_PseudoLabelPaths ==
    pc = "pseudo_done" =>
        LET in == preprocessed[1]
            out == returned[1]
            rows == ConfidentRows
        IN /\ Augmented <=> (pipeline.predict_proba # None
                             /\ Cardinality(rows) > 10)
           /\ out.cv.X = out.fit.X /\ out.cv.y = out.fit.y
           /\ out.cv.folds = 5
           /\ Augmented =>
                 /\ NRows(out.fit.X) = NRows(in.X_train) + Cardinality(rows)
                 /\ Len(out.fit.y) = NRows(out.fit.X)
                 /\ SubSeq(XValues(out.fit.X), 1, NRows(in.X_train))
                      = XValues(in.X_train)
                 /\ SubSeq(out.fit.y, 1, Len(in.y_train)) = in.y_train
                 /\ { XValues(out.fit.X)[i] :
                        i \in (NRows(in.X_train) + 1)..NRows(out.fit.X) }
                      = { XValues(in.X_test)[j] : j \in rows }
                 /\ \A i \in 1..Cardinality(rows) :
                       \E j \in rows :
                          /\ XValues(out.fit.X)[NRows(in.X_train) + i]
                               = XValues(in.X_test)[j]
                          /\ out.fit.y[Len(in.y_train) + i]
                               = pipeline.predict[j]
                 /\ out.extra_info = "Pseudo-labeled "
                        \o ToString(Cardinality(rows)) \o " samples"
           /\ ~Augmented =>
                 /\ out.fit.X = in.X_train /\ out.fit.y = in.y_train
                 /\ out.extra_info
                      = "Standard training (pseudo-labeling not confident enough)"
           /\ Len(out.preds) = NRows(in.X_test)
           /\ out.extra_info # ""
           /\ Len(events) = 1
           /\ events[1].event = "log"
           /\ events[1].message = out.extra_info

\* Eleven confident rows among rows at 0.9 and below: the augmented path.
C25_Witness ==
    /\ pc = "pseudo_done"
    /\ Cardinality(ConfidentRows) = 11
    /\ NRows(preprocessed[1].X_test) = 14
    /\ Augmented
    /\ NRows(returned[1].fit.X) = 13

\* -------------------------------------------- claims about the preprocessing

\* The test table as the file holds it.
OriginalTest == read_csv("test", data_dir.test_columns)

\* The train table as the file holds it.
OriginalTrain == read_csv("train", data_dir.train_columns)

\* The categorical feature c of the two files under each encoding: in the
\* train file a, b, a and a missing value, in the test file d, a missing value
\* and b.  Shares of the three train values at hand (a 2/3, b 1/3, everything
\* else 0); positions in the sorted classes _missing_, a, b, d.
FrequencyEncodedTrain == << Num(2, 3), Num(1, 3), Num(2, 3), Num(0, 1) >>

FrequencyEncodedTest == << Num(0, 1), Num(0, 1), Num(1, 3) >>

LabelEncodedTrain == << Num(1, 1), Num(2, 1), Num(1, 1), Num(0, 1) >>

LabelEncodedTest == << Num(3, 1), Num(0, 1), Num(2, 1) >>

\* C26: once the two tables are read they stay as the files hold them through
\* every preprocessing pass; the categorical feature handed to a strategy is
\* frequency encoded if and only if the strategy is mikolov2013 and label
\* encoded otherwise, wherever the strategy stands in the run; and the
\* submission carries the identifier column of the original test table with
\* its values in the original row order.
C26_PreprocessingLeavesTablesAlone ==
    /\ train_columns # << >> =>
          /\ train_df = OriginalTrain
          /\ test_df = OriginalTest
    /\ (pc \in {"build", "execute"}
        /\ "c" \in Range(Columns(preprocessed[1].X_train))) =>
          LET c_train == Series(preprocessed[1].X_train, "c").values
              c_test == Series(preprocessed[1].X_test, "c").values
          IN /\ (c_train = FrequencyEncodedTrain /\ c_test = FrequencyEncodedTest)
                   <=> CurrentMatch.paper_id = "mikolov2013"
             /\ CurrentMatch.paper_id # "mikolov2013" =>
                   c_train = LabelEncodedTrain /\ c_test = LabelEncodedTest
    /\ (submission # None /\ find_id_column(OriginalTest) # None) =>
          /\ submission[1].id_col = find_id_column(OriginalTest)[1]
          /\ submission[1].ids
               = Series(OriginalTest, submission[1].id_col).values

\* mikolov2013 completed, a later strategy completed on label-encoded inputs,
\* and the submission carries the identifiers 9, 5, 7 of the test file.
C26_Witness ==
    /\ submission # None
    /\ \E i, j \in 1..Len(results) :
          /\ i < j
          /\ results[i].paper_id = "mikolov2013"
          /\ results[j].id = idx - 1
    /\ "c" \in Range(Columns(preprocessed[1].X_train))
    /\ Series(preprocessed[1].X_train, "c").values = LabelEncodedTrain
    /\ submission[1].id_col = "Id"
    /\ submission[1].ids = << Num(9, 1), Num(5, 1), Num(7, 1) >>
    /\ test_df = OriginalTest

====
